---- MODULE Spec2Model ----
(***************************************************************************)
(* The authenticated-request pipeline of the Jamf classic API client:      *)
(* NewClient, requestToken, checkTokenExpiration, makeAPIrequest and       *)
(* MockAPIRequest (package classic).  Strings are TLA+ strings, so header  *)
(* values and error messages are built and searched as the code builds     *)
(* them.  Time is counted in whole minutes.                                *)
(***************************************************************************)
EXTENDS Integers, Sequences, FiniteSets, TLC

\* The clock advances at most this many minutes past the construction instant.
MaxNow == 2

\* time.Minute * 5, in minutes.
Margin == 5

Callers == {1, 2}

----------------------------------------------------------------------------
(* Strings *)

\* strings.Contains
Contains(s, t) ==
    \/ Len(t) = 0
    \/ \E i \in 1..(Len(s) - Len(t) + 1) : SubSeq(s, i, i + Len(t) - 1) = t

Char(s, i) == SubSeq(s, i, i)

Digits == {"0", "1", "2", "3", "4", "5", "6", "7", "8", "9"}

Digit(c) ==
    CASE c = "0" -> 0 [] c = "1" -> 1 [] c = "2" -> 2 [] c = "3" -> 3
      [] c = "4" -> 4 [] c = "5" -> 5 [] c = "6" -> 6 [] c = "7" -> 7
      [] c = "8" -> 8 [] c = "9" -> 9 [] OTHER -> 0

AllDigits(s, from, to) == \A i \in from..to : Char(s, i) \in Digits

\* The decimal number written at s[from..to].
RECURSIVE Number(_, _, _)
Number(s, from, to) ==
    IF to < from THEN 0
    ELSE 10 * Number(s, from, to - 1) + Digit(Char(s, to))

----------------------------------------------------------------------------
(* Errors: the nil error, fmt.Errorf / errors.New, and errors.Wrapf *)

NilErr == [nil |-> TRUE, msg |-> ""]

NewErr(m) == [nil |-> FALSE, msg |-> m]

\* errors.Wrapf of github.com/pkg/errors: nil when the wrapped error is nil,
\* otherwise "<message>: <cause>".
Wrapf(e, m) == IF e.nil THEN NilErr ELSE NewErr(m \o ": " \o e.msg)

----------------------------------------------------------------------------
(* time.Parse(time.RFC3339, s), for timestamps without fractional seconds *)

IsLeap(y) == (y % 4 = 0 /\ y % 100 # 0) \/ y % 400 = 0

DaysIn(y, m) ==
    CASE m \in {4, 6, 9, 11} -> 30
      [] m = 2 -> IF IsLeap(y) THEN 29 ELSE 28
      [] OTHER -> 31

RECURSIVE DaysBeforeMonth(_, _)
DaysBeforeMonth(y, m) ==
    IF m <= 1 THEN 0 ELSE DaysBeforeMonth(y, m - 1) + DaysIn(y, m - 1)

\* Days from 1970-01-01 to the first day of year y (y >= 1970).
DaysBeforeYear(y) ==
    LET n == y - 1
    IN  (n * 365 + n \div 4 - n \div 100 + n \div 400)
        - (1969 * 365 + 1969 \div 4 - 1969 \div 100 + 1969 \div 400)

\* Minutes since the Unix epoch of a civil date and time in UTC.
UnixMinutes(y, mo, d, h, mi) ==
    ((DaysBeforeYear(y) + DaysBeforeMonth(y, mo) + (d - 1)) * 24 + h) * 60 + mi

\* The layout "2006-01-02T15:04:05Z07:00": 20 characters ending in Z, or 25
\* ending in a numeric zone +hh:mm / -hh:mm.
RFC3339Shape(s) ==
    /\ Len(s) \in {20, 25}
    /\ AllDigits(s, 1, 4) /\ Char(s, 5) = "-"
    /\ AllDigits(s, 6, 7) /\ Char(s, 8) = "-"
    /\ AllDigits(s, 9, 10) /\ Char(s, 11) = "T"
    /\ AllDigits(s, 12, 13) /\ Char(s, 14) = ":"
    /\ AllDigits(s, 15, 16) /\ Char(s, 17) = ":"
    /\ AllDigits(s, 18, 19)
    /\ IF Len(s) = 20 THEN Char(s, 20) = "Z"
       ELSE /\ Char(s, 20) \in {"+", "-"}
            /\ AllDigits(s, 21, 22) /\ Char(s, 23) = ":" /\ AllDigits(s, 24, 25)

RFC3339Ranges(s) ==
    LET y == Number(s, 1, 4)  mo == Number(s, 6, 7)  d == Number(s, 9, 10)
    IN  /\ mo \in 1..12
        /\ d \in 1..DaysIn(y, mo)
        /\ Number(s, 12, 13) \in 0..23
        /\ Number(s, 15, 16) \in 0..59
        /\ Number(s, 18, 19) \in 0..59
        /\ Len(s) = 25 => Number(s, 21, 22) \in 0..23 /\ Number(s, 24, 25) \in 0..59

\* Minutes east of UTC of the zone suffix.
ZoneOffset(s) ==
    IF Len(s) = 20 THEN 0
    ELSE (IF Char(s, 20) = "-" THEN -1 ELSE 1)
         * (Number(s, 21, 22) * 60 + Number(s, 24, 25))

ParseError(s) ==
    NewErr("parsing time \"" \o s \o "\" as \"2006-01-02T15:04:05Z07:00\": cannot parse")

\* [err, t]: t is the instant in minutes since the Unix epoch.
TimeParse(s) ==
    IF RFC3339Shape(s) /\ RFC3339Ranges(s)
    THEN [err |-> NilErr,
          t |-> UnixMinutes(Number(s, 1, 4), Number(s, 6, 7), Number(s, 9, 10),
                            Number(s, 12, 13), Number(s, 15, 16)) - ZoneOffset(s)]
    ELSE [err |-> ParseError(s), t |-> 0]

----------------------------------------------------------------------------
(* Response bodies, as the server writes them and as the decoders read them *)

\* A JSON member or a markup element whose content is text.
Str(name, val) == [name |-> name, type |-> "string", val |-> val]

\* A JSON member whose value is a number.
Num(name, val) == [name |-> name, type |-> "number", val |-> val]

JSONBody(members) ==
    [kind |-> "json", members |-> members, complete |-> TRUE, raw |-> ""]

\* A JSON object cut off before its closing brace.
JSONCut(members) ==
    [kind |-> "json", members |-> members, complete |-> FALSE, raw |-> ""]

XMLBody(members) ==
    [kind |-> "xml", members |-> members, complete |-> TRUE, raw |-> ""]

\* A markup document cut off after the listed elements.
XMLCut(members) ==
    [kind |-> "xml", members |-> members, complete |-> FALSE, raw |-> ""]

TextBody(raw) ==
    [kind |-> "text", members |-> <<>>, complete |-> TRUE, raw |-> raw]

RECURSIVE JSONMembers(_)
JSONMembers(ms) ==
    IF ms = <<>> THEN ""
    ELSE LET m == Head(ms)
             v == IF m.type = "string" THEN "\"" \o m.val \o "\"" ELSE m.val
         IN  "\"" \o m.name \o "\":" \o v
             \o (IF Len(ms) > 1 THEN "," ELSE "") \o JSONMembers(Tail(ms))

RECURSIVE XMLElements(_)
XMLElements(ms) ==
    IF ms = <<>> THEN ""
    ELSE LET m == Head(ms)
         IN  "<" \o m.name \o ">" \o m.val \o "</" \o m.name \o ">"
             \o XMLElements(Tail(ms))

\* The bytes of a body: what io.ReadAll returns when the read succeeds.
BodyText(b) ==
    CASE b.kind = "json" ->
           "{" \o JSONMembers(b.members) \o (IF b.complete THEN "}" ELSE "")
      [] b.kind = "xml" ->
           "<r>" \o XMLElements(b.members) \o (IF b.complete THEN "</r>" ELSE "<")
      [] OTHER -> b.raw

\* The target with every text member it has a field for stored, in order.
\* names maps a member name to the target's field.
RECURSIVE StoreMembers(_, _, _)
StoreMembers(target, ms, names) ==
    IF ms = <<>> THEN target
    ELSE LET m == Head(ms)
             next == IF m.name \in DOMAIN names /\ m.type = "string"
                     THEN [target EXCEPT ![names[m.name]] = m.val]
                     ELSE target
         IN  StoreMembers(next, Tail(ms), names)

\* The members the target has a field for but whose JSON type is not string.
Mismatches(ms, names) ==
    SelectSeq(ms, LAMBDA m : m.name \in DOMAIN names /\ m.type # "string")

JSONSyntaxError(b) ==
    CASE b.kind = "json" -> NewErr("unexpected EOF")
      [] b.kind = "xml" ->
           NewErr("invalid character '<' looking for beginning of value")
      [] b.raw = "" -> NewErr("EOF")
      [] OTHER -> NewErr("invalid character '" \o Char(b.raw, 1)
                         \o "' looking for beginning of value")

\* json.NewDecoder(body).Decode(target) for a struct of string fields: the
\* whole value is read and checked for syntax before anything is stored; a
\* member of the wrong type is skipped, the first such error is kept, and the
\* remaining members are still stored.
JSONDecode(b, target, names, typeName) ==
    IF b.kind # "json" \/ ~b.complete
    THEN [val |-> target, err |-> JSONSyntaxError(b)]
    ELSE LET bad == Mismatches(b.members, names)
         IN  [val |-> StoreMembers(target, b.members, names),
              err |-> IF bad = <<>> THEN NilErr
                      ELSE NewErr("json: cannot unmarshal " \o bad[1].type
                                  \o " into Go struct field " \o typeName \o "."
                                  \o bad[1].name \o " of type string")]

\* xml.NewDecoder(body).Decode(target): elements are stored as they are
\* read, so a document cut off part-way leaves the elements before the cut.
XMLDecode(b, target, names) ==
    IF b.kind # "xml"
    THEN [val |-> target, err |-> NewErr("EOF")]
    ELSE [val |-> StoreMembers(target, b.members, names),
          err |-> IF b.complete THEN NilErr
                  ELSE NewErr("XML syntax error on line 1: unexpected EOF")]

----------------------------------------------------------------------------
(* HTTP *)

\* http.Response.Status
StatusText(code) ==
    CASE code = 200 -> "200 OK"
      [] code = 201 -> "201 Created"
      [] code = 204 -> "204 No Content"
      [] code = 401 -> "401 Unauthorized"
      [] OTHER -> "500 Internal Server Error"

\* The position of the first c in s, 0 when there is none.
Index(s, c) ==
    LET at == {i \in 1..Len(s) : Char(s, i) = c}
    IN  IF at = {} THEN 0 ELSE CHOOSE i \in at : \A j \in at : i <= j

\* The header value as it came, parameters included.
SplitFirst_Whole(s, sep) == s

\* strings.Split(s, sep)[0]
SplitFirst(s, sep) ==
    IF Index(s, sep) = 0 THEN s ELSE SubSeq(s, 1, Index(s, sep) - 1)

\* url.Parse rejects a URL that holds an ASCII control character.
URLParseError(u) ==
    IF Contains(u, "\t") \/ Contains(u, "\n") \/ Contains(u, "\r")
    THEN NewErr("parse \"" \o u \o "\": net/url: invalid control character in URL")
    ELSE NilErr

\* The error of http.Client.Do when the round trip fails.
TransportError(method, url) ==
    NewErr((IF method = "POST" THEN "Post" ELSE "Get") \o " \"" \o url
           \o "\": dial tcp: connect: connection refused")

\* The error of io.ReadAll when the connection drops within the body.
ReadError == NewErr("unexpected EOF")

\* base64.StdEncoding.EncodeToString, for the credentials of the model.
Base64(s) ==
    CASE s = "fake-username:mock-password-cool" ->
           "ZmFrZS11c2VybmFtZTptb2NrLXBhc3N3b3JkLWNvb2w="
      [] OTHER -> ""

\* http.Request.SetBasicAuth
BasicAuth(username, password) ==
    "Basic " \o Base64(username \o ":" \o password)

NoHeader ==
    [Accept |-> "", CacheControl |-> "", StrictTransportSecurity |-> "",
     Authorization |-> ""]

NoRequest == [Method |-> "", URL |-> "", Header |-> NoHeader]

\* http.NewRequestWithContext(ctx, method, url, body)
NewRequest(method, url) == [Method |-> method, URL |-> url, Header |-> NoHeader]

\* A response as the transport hands it over: trip tells whether the round
\* trip succeeded, readable whether the whole body can be read.
NoResponse ==
    [trip |-> "none", code |-> 0, ctype |-> "", body |-> TextBody(""),
     readable |-> TRUE]

FailedTrip == [NoResponse EXCEPT !.trip = "failed"]

Reply(code, ctype, body, readable) ==
    [trip |-> "ok", code |-> code, ctype |-> ctype, body |-> body,
     readable |-> readable]

\* The body as a decoder reads it: cut off where the read fails.
Received(resp) ==
    IF resp.readable THEN resp.body ELSE [resp.body EXCEPT !.complete = FALSE]

----------------------------------------------------------------------------
(* The client *)

Username == "fake-username"

Password == "mock-password-cool"

\* A usable domain, and one with a stray tab that no URL can be built from.
Domains == {"https://jamf.example.com", "https://jamf.example.com\t"}

\* A constructor that asks for a domain and takes any credentials.
NewClient_DomainOnly(domain, username, password) ==
    IF domain = ""
    THEN [ok |-> FALSE,
          client |-> [Domain |-> "", Username |-> "", Password |-> "",
                      Endpoint |-> "", Token |-> [Token |-> "", Expires |-> ""]],
          err |-> NewErr("you must provide a valid Jamf domain, username, and password")]
    ELSE [ok |-> TRUE,
          client |-> [Domain |-> domain, Username |-> username,
                      Password |-> password,
                      Endpoint |-> domain \o "/JSSResource",
                      Token |-> [Token |-> "", Expires |-> ""]],
          err |-> NilErr]

\* NewClient: [client, err]; ok tells whether a client is returned.
NewClient(domain, username, password) ==
    IF domain = "" \/ username = "" \/ password = ""
    THEN [ok |-> FALSE,
          client |-> [Domain |-> "", Username |-> "", Password |-> "",
                      Endpoint |-> "", Token |-> [Token |-> "", Expires |-> ""]],
          err |-> NewErr("you must provide a valid Jamf domain, username, and password")]
    ELSE [ok |-> TRUE,
          client |-> [Domain |-> domain, Username |-> username,
                      Password |-> password,
                      Endpoint |-> domain \o "/JSSResource",
                      Token |-> [Token |-> "", Expires |-> ""]],
          err |-> NilErr]

\* The json tags of JamfToken.
TokenNames == [token |-> "Token", expires |-> "Expires"]

\* The result container: a struct of string fields with json tags, as
\* MockResponse; markup elements are matched by field name.
ZeroContainer == [Status |-> "", Name |-> ""]

ContainerJSONNames == [status |-> "Status", name |-> "Name"]

ContainerXMLNames == [Status |-> "Status", Name |-> "Name"]

\* A status test that takes 200 alone for ok.
IsOK_Only200(code) == code = 200

\* res.StatusCode != 200 && res.StatusCode != 201, negated
IsOK(code) == code = 200 \/ code = 201

\* The error for a response whose status is not ok, without the body.
StatusError_StatusOnly(resp) ==
    IF ~resp.readable
    THEN Wrapf(ReadError,
               "request error: " \o StatusText(resp.code)
               \o ". unable to retrieve plain text response: " \o ReadError.msg)
    ELSE NewErr("request error: " \o StatusText(resp.code))

\* The error for a response whose status is not ok, status put before the body.
StatusError_WithStatus(resp) ==
    IF ~resp.readable
    THEN Wrapf(ReadError,
               "request error: " \o StatusText(resp.code)
               \o ". unable to retrieve plain text response: " \o ReadError.msg)
    ELSE NewErr("request error: " \o StatusText(resp.code) \o ": "
                \o BodyText(resp.body))

\* Lines 90-96 and 146-152: the error for a response whose status is not ok.
StatusError(resp) ==
    IF ~resp.readable
    THEN Wrapf(ReadError,
               "request error: " \o StatusText(resp.code)
               \o ". unable to retrieve plain text response: " \o ReadError.msg)
    ELSE NewErr("request error: " \o BodyText(resp.body))

\* requestToken that decodes into a new JamfToken and puts it in the store.
RequestTokenResult_FreshToken(resp, token, req) ==
    IF resp.trip = "failed"
    THEN [Token |-> token,
          err |-> Wrapf(TransportError(req.Method, req.URL),
                        "error making " \o req.Method \o " request to " \o req.URL)]
    ELSE IF ~IsOK(resp.code)
    THEN [Token |-> token, err |-> StatusError(resp)]
    ELSE LET dec == JSONDecode(Received(resp), [Token |-> "", Expires |-> ""],
                               TokenNames, "JamfToken")
         IN  [Token |-> dec.val,
              err |-> Wrapf(dec.err,
                  "response was successful but error occured decoding JSON token response")]

\* requestToken that decodes the body before it looks at the status.
RequestTokenResult_DecodesFirst(resp, token, req) ==
    IF resp.trip = "failed"
    THEN [Token |-> token,
          err |-> Wrapf(TransportError(req.Method, req.URL),
                        "error making " \o req.Method \o " request to " \o req.URL)]
    ELSE LET dec == JSONDecode(Received(resp), token, TokenNames, "JamfToken")
         IN  IF ~IsOK(resp.code)
             THEN [Token |-> dec.val, err |-> StatusError(resp)]
             ELSE [Token |-> dec.val,
                   err |-> Wrapf(dec.err,
                       "response was successful but error occured decoding JSON token response")]

\* requestToken from the answer of j.api.Do on: [Token, err].  The decoder
\* writes into the token store itself.
RequestTokenResult(resp, token, req) ==
    IF resp.trip = "failed"
    THEN [Token |-> token,
          err |-> Wrapf(TransportError(req.Method, req.URL),
                        "error making " \o req.Method \o " request to " \o req.URL)]
    ELSE IF ~IsOK(resp.code)
    THEN [Token |-> token, err |-> StatusError(resp)]
    ELSE LET dec == JSONDecode(Received(resp), token, TokenNames, "JamfToken")
         IN  [Token |-> dec.val,
              err |-> Wrapf(dec.err,
                  "response was successful but error occured decoding JSON token response")]

\* A guard that compares with time.Since instead of time.Until.
TokenCheck_Since(expires, now) ==
    IF expires # "" /\ ~TimeParse(expires).err.nil
    THEN [branch |-> "fail",
          err |-> Wrapf(TimeParse(expires).err,
                        "error parsing the bearer token expiration date: " \o expires)]
    ELSE IF expires # "" /\ now - TimeParse(expires).t > Margin
    THEN [branch |-> "valid", err |-> NilErr]
    ELSE [branch |-> "renew", err |-> NilErr]

\* A guard that accepts a token with exactly the margin left.
TokenCheck_AtLeast(expires, now) ==
    IF expires # "" /\ ~TimeParse(expires).err.nil
    THEN [branch |-> "fail",
          err |-> Wrapf(TimeParse(expires).err,
                        "error parsing the bearer token expiration date: " \o expires)]
    ELSE IF expires # "" /\ TimeParse(expires).t - now >= Margin
    THEN [branch |-> "valid", err |-> NilErr]
    ELSE [branch |-> "renew", err |-> NilErr]

\* A guard that treats an unparseable expiration as an expired token.
TokenCheck_ParseRenews(expires, now) ==
    IF expires # "" /\ TimeParse(expires).err.nil
       /\ TimeParse(expires).t - now > Margin
    THEN [branch |-> "valid", err |-> NilErr]
    ELSE [branch |-> "renew", err |-> NilErr]

\* checkTokenExpiration up to its call of requestToken: the branch taken
\* ("fail": return the parse error; "valid": return nil; "renew": request a
\* token) and the error returned on "fail".
TokenCheck(expires, now) ==
    IF expires # "" /\ ~TimeParse(expires).err.nil
    THEN [branch |-> "fail",
          err |-> Wrapf(TimeParse(expires).err,
                        "error parsing the bearer token expiration date: " \o expires)]
    ELSE IF expires # "" /\ TimeParse(expires).t - now > Margin
    THEN [branch |-> "valid", err |-> NilErr]
    ELSE [branch |-> "renew", err |-> NilErr]

\* Headers that leave the Authorization value of the request as it came.
SetHeaders_KeepsAuthorization(h, token) ==
    [h EXCEPT !.Accept = "application/json, application/xml;q=0.9",
              !.CacheControl = "no-store, no-cache, must-revalidate, max-age=0, post-check=0, pre-check=0",
              !.StrictTransportSecurity = "max-age=31536000 ; includeSubDomains"]

\* The four r.Header.Set calls of makeAPIrequest.
SetHeaders(h, token) ==
    [h EXCEPT !.Accept = "application/json, application/xml;q=0.9",
              !.CacheControl = "no-store, no-cache, must-revalidate, max-age=0, post-check=0, pre-check=0",
              !.StrictTransportSecurity = "max-age=31536000 ; includeSubDomains",
              !.Authorization = "Bearer " \o token]

\* makeAPIrequest that decodes the body before it looks at the status.
MakeAPIResult_DecodesFirst(resp, v, r) ==
    IF resp.trip = "failed"
    THEN [v |-> v,
          err |-> Wrapf(TransportError(r.Method, r.URL),
                        "error making " \o r.Method \o " request to " \o r.URL)]
    ELSE IF ~IsOK(resp.code)
    THEN [v |-> JSONDecode(Received(resp), v, ContainerJSONNames, "MockResponse").val,
          err |-> StatusError(resp)]
    ELSE LET t == SplitFirst(resp.ctype, ";")
         IN  CASE t \in {"text/xml", "application/xml"} ->
                    LET dec == XMLDecode(Received(resp), v, ContainerXMLNames)
                    IN  [v |-> dec.val,
                         err |-> Wrapf(dec.err,
                             "response was successful but error occured decoding response body of type " \o t)]
               [] t \in {"text/json", "application/json", "text/plain"} ->
                    LET dec == JSONDecode(Received(resp), v, ContainerJSONNames,
                                          "MockResponse")
                    IN  [v |-> dec.val,
                         err |-> Wrapf(dec.err,
                             "response was successful but error occured error decoding response body of type " \o t)]
               [] OTHER ->
                    [v |-> v,
                     err |-> Wrapf(NilErr,
                         "response was successful but error occured recieved unexpected response body of type " \o t)]

\* makeAPIrequest from the answer of j.api.Do on: [v, err].  In the default
\* case of the switch err is still the nil error of j.api.Do.
MakeAPIResult(resp, v, r) ==
    IF resp.trip = "failed"
    THEN [v |-> v,
          err |-> Wrapf(TransportError(r.Method, r.URL),
                        "error making " \o r.Method \o " request to " \o r.URL)]
    ELSE IF ~IsOK(resp.code)
    THEN [v |-> v, err |-> StatusError(resp)]
    ELSE LET t == SplitFirst(resp.ctype, ";")
         IN  CASE t \in {"text/xml", "application/xml"} ->
                    LET dec == XMLDecode(Received(resp), v, ContainerXMLNames)
                    IN  [v |-> dec.val,
                         err |-> Wrapf(dec.err,
                             "response was successful but error occured decoding response body of type " \o t)]
               [] t \in {"text/json", "application/json", "text/plain"} ->
                    LET dec == JSONDecode(Received(resp), v, ContainerJSONNames,
                                          "MockResponse")
                    IN  [v |-> dec.val,
                         err |-> Wrapf(dec.err,
                             "response was successful but error occured error decoding response body of type " \o t)]
               [] OTHER ->
                    [v |-> v,
                     err |-> Wrapf(NilErr,
                         "response was successful but error occured recieved unexpected response body of type " \o t)]

\* A makeAPIrequest that goes on to the request after a guard error.
GuardFailed_Never(err) == FALSE

\* err != nil after j.checkTokenExpiration()
GuardFailed(err) == ~err.nil

----------------------------------------------------------------------------
(* What the servers may answer *)

TokenValues == {"tokA", "tokB"}

\* Expirations a token response may carry: none, past or close, on the margin
\* during the run (in a zone one hour east), far, and a Unix time in seconds.
ExpiresValues ==
    {"", "2026-01-01T00:01:00Z", "2026-01-01T01:07:00+01:00",
     "2026-01-01T00:09:00Z", "1767225600"}

\* The instant the client is constructed at, and the reading of time.Now.
Epoch == UnixMinutes(2026, 1, 1, 0, 0)

TokenMember == {<<>>, <<Num("token", "7")>>} \cup {<<Str("token", t)>> : t \in TokenValues}

ExpiresMember ==
    {<<>>, <<Num("expires", "1767225600")>>}
    \cup {<<Str("expires", e)>> : e \in ExpiresValues}

TokenBodies == {JSONBody(t \o e) : t \in TokenMember, e \in ExpiresMember}

Unauthorized == TextBody("Unauthorized")

AuthResponses ==
    {FailedTrip}
    \cup {Reply(code, "application/json", b, TRUE) :
            code \in {200, 201},
            b \in TokenBodies \cup {JSONCut(<<Str("token", "tokA")>>), TextBody("")}}
    \cup {Reply(code, "text/plain", b, rd) :
            code \in {204, 401},
            b \in {Unauthorized,
                   JSONBody(<<Str("token", "tokA"), Str("expires", "2026-01-01T00:09:00Z")>>)},
            rd \in BOOLEAN}

ContentTypes ==
    {"application/json", "application/json;charset=UTF-8", "text/json",
     "text/plain", "text/xml;charset=UTF-8", "application/xml",
     "text/html;charset=UTF-8", ""}

BadCall == TextBody("bad API call to /JSSResource/mock/nope\n")

ResourceBodies ==
    {JSONBody(<<Str("status", "OK"), Str("name", "mac1")>>),
     JSONBody(<<Str("status", "OK"), Num("name", "5")>>),
     JSONCut(<<Str("status", "OK")>>),
     XMLBody(<<Str("Status", "OK"), Str("Name", "mac1")>>),
     XMLCut(<<Str("Status", "OK")>>),
     BadCall,
     TextBody("")}

ResourceResponses ==
    {FailedTrip}
    \cup {Reply(code, ct, b, TRUE) :
            code \in {200, 201}, ct \in ContentTypes, b \in ResourceBodies}
    \cup {Reply(code, ct, b, rd) :
            code \in {204, 500},
            ct \in {"text/plain; charset=utf-8", "application/json"},
            b \in {BadCall, TextBody("500 Internal Server Error"),
                   JSONBody(<<Str("status", "OK"), Str("name", "mac1")>>)},
            rd \in BOOLEAN}

\* Containers a caller of MockAPIRequest hands in: fresh, or used before.
Containers == {ZeroContainer, [Status |-> "stale", Name |-> "old"]}

----------------------------------------------------------------------------
(* State *)

VARIABLES
    j,      \* the client: Domain, Username, Password, Endpoint, Token
    clock,  \* minutes since the client was constructed
    call,   \* per caller, the makeAPIrequest call it is in
    made    \* the call of NewClient: its arguments and what it returned

vars == <<j, clock, call, made>>

Now == Epoch + clock

\* pc: where the call stands.  r, v: the arguments.  v0: v at entry.
\* err: what checkTokenExpiration returned.  tokenReq, tokenRes: the request
\* and response of requestToken, kept until the call goes on.  res: the
\* resource response.  ret: what makeAPIrequest returned.  sentAuth, sentRes:
\* the calls of j.api.Do made for the token and for the resource.
Idle ==
    [pc |-> "idle", r |-> NoRequest, v |-> ZeroContainer, v0 |-> ZeroContainer,
     err |-> NilErr, renewed |-> FALSE, tokenReq |-> NoRequest,
     tokenRes |-> NoResponse, res |-> NoResponse, ret |-> NilErr,
     sentAuth |-> 0, sentRes |-> 0]

\* The client argument of NewClient: nil, or an http.Client of the caller.
NilHTTPClient == [nil |-> TRUE, Timeout |-> 0]

CallerHTTPClient == [nil |-> FALSE, Timeout |-> 0]

\* Lines 59-61: without a client of the caller, one with a timeout of a minute.
APIClient(client) ==
    IF client.nil THEN [nil |-> FALSE, Timeout |-> 1] ELSE client

\* NewClient called and returned: arguments, client or nil, error.
Constructed(domain, username, password, client) ==
    LET out == NewClient(domain, username, password)
    IN  [called |-> TRUE,
         args |-> [domain |-> domain, username |-> username,
                   password |-> password, client |-> client],
         ok |-> out.ok,
         err |-> out.err,
         api |-> IF out.ok THEN APIClient(client) ELSE NilHTTPClient]

Init ==
    /\ \E d \in Domains :
         /\ j = NewClient(d, Username, Password).client
         /\ made = Constructed(d, Username, Password, NilHTTPClient)
    /\ clock = 0
    /\ call = [p \in Callers |-> Idle]

\* Calls on one client follow one another.
NoCallRunning == \A q \in Callers : call[q].pc = "idle"

\* The URLs a test can build its request for: the one the client's endpoint
\* gives and a literal one, as far as http.NewRequestWithContext takes them.
TestURLs ==
    {u \in {j.Endpoint \o "/mock/test",
            "https://jamf.example.com/JSSResource/mock/test"} :
        URLParseError(u).nil}

\* A test calls MockAPIRequest (caller 1): Accept and Basic credentials are
\* set on the request, then makeAPIrequest runs.
MockAPIRequest ==
    /\ NoCallRunning
    /\ \E c \in Containers, u \in TestURLs :
         LET req == NewRequest("GET", u)
             h == [req.Header EXCEPT
                     !.Accept = "application/json,  application/xml;q=0.9",
                     !.Authorization = BasicAuth(j.Username, j.Password)]
         IN  call' = [call EXCEPT ![1] =
                        [Idle EXCEPT !.pc = "check", !.v = c, !.v0 = c,
                                     !.r = [req EXCEPT !.Header = h]]]
    /\ UNCHANGED <<j, clock, made>>

\* Computers (caller 2) builds its request and a fresh container and calls
\* makeAPIrequest; it returns before the call when the request cannot be
\* built.
Computers ==
    /\ NoCallRunning
    /\ URLParseError(j.Endpoint \o "/computers").nil
    /\ call' = [call EXCEPT ![2] =
                  [Idle EXCEPT !.pc = "check",
                               !.r = NewRequest("GET", j.Endpoint \o "/computers")]]
    /\ UNCHANGED <<j, clock, made>>

\* A guard behind a lock: it waits while another caller renews the token.
CheckTokenExpiration_Locked(p) ==
    /\ call[p].pc = "check"
    /\ \A q \in Callers \ {p} : call[q].pc \notin {"request", "await_token", "storing"}
    /\ LET c == TokenCheck(j.Token.Expires, Now)
       IN  call' = [call EXCEPT ![p] =
             CASE c.branch = "fail" ->
                    [@ EXCEPT !.err = c.err,
                              !.pc = IF GuardFailed(c.err) THEN "done" ELSE "decorate",
                              !.ret = IF GuardFailed(c.err)
                                      THEN Wrapf(c.err, "error checking for bearer token expiration")
                                      ELSE NilErr]
               [] c.branch = "valid" -> [@ EXCEPT !.pc = "decorate"]
               [] OTHER -> [@ EXCEPT !.pc = "request"]]
    /\ UNCHANGED <<j, clock, made>>

\* checkTokenExpiration, to its return or to its call of requestToken.
CheckTokenExpiration(p) ==
    /\ call[p].pc = "check"
    /\ LET c == TokenCheck(j.Token.Expires, Now)
       IN  call' = [call EXCEPT ![p] =
             CASE c.branch = "fail" ->
                    [@ EXCEPT !.err = c.err,
                              !.pc = IF GuardFailed(c.err) THEN "done" ELSE "decorate",
                              !.ret = IF GuardFailed(c.err)
                                      THEN Wrapf(c.err, "error checking for bearer token expiration")
                                      ELSE NilErr]
               [] c.branch = "valid" -> [@ EXCEPT !.pc = "decorate"]
               [] OTHER -> [@ EXCEPT !.pc = "request"]]
    /\ UNCHANGED <<j, clock, made>>

\* requestToken, to its call of j.api.Do: the request is built and sent.
RequestToken(p) ==
    /\ call[p].pc = "request"
    /\ LET endpoint == j.Domain \o "/api/v1/auth/token"
           bad == URLParseError(endpoint)
           err == Wrapf(Wrapf(bad, "error creating bearer token request"),
                        "error requesting new bearer token")
           req == NewRequest("POST", endpoint)
       IN  call' = [call EXCEPT ![p] =
             IF ~bad.nil
             THEN [@ EXCEPT !.err = err,
                            !.pc = IF GuardFailed(err) THEN "done" ELSE "decorate",
                            !.ret = IF GuardFailed(err)
                                    THEN Wrapf(err, "error checking for bearer token expiration")
                                    ELSE NilErr]
             ELSE [@ EXCEPT !.pc = "await_token",
                            !.sentAuth = @ + 1,
                            !.tokenReq = [req EXCEPT !.Header.Authorization =
                                            BasicAuth(j.Username, j.Password)]]]
    /\ UNCHANGED <<j, clock, made>>

\* A guard that checks the expiration of the token it has just acquired.
TokenResponse_Rechecks(p) ==
    /\ call[p].pc = "await_token"
    /\ \E resp \in AuthResponses :
         LET out == RequestTokenResult(resp, j.Token, call[p].tokenReq)
             err == Wrapf(out.err, "error requesting new bearer token")
         IN  /\ j' = [j EXCEPT !.Token = out.Token]
             /\ call' = [call EXCEPT ![p] =
                  [@ EXCEPT !.tokenRes = resp,
                            !.err = err,
                            !.renewed = err.nil,
                            !.pc = IF GuardFailed(err) THEN "done" ELSE "check",
                            !.ret = IF GuardFailed(err)
                                    THEN Wrapf(err, "error checking for bearer token expiration")
                                    ELSE NilErr]]
    /\ UNCHANGED <<clock, made>>

\* The rest of requestToken and of checkTokenExpiration, on the answer of the
\* authentication endpoint.
TokenResponse(p) ==
    /\ call[p].pc = "await_token"
    /\ \E resp \in AuthResponses :
         LET out == RequestTokenResult(resp, j.Token, call[p].tokenReq)
             err == Wrapf(out.err, "error requesting new bearer token")
         IN  /\ j' = [j EXCEPT !.Token = out.Token]
             /\ call' = [call EXCEPT ![p] =
                  [@ EXCEPT !.tokenRes = resp,
                            !.err = err,
                            !.renewed = err.nil,
                            !.pc = IF GuardFailed(err) THEN "done" ELSE "decorate",
                            !.ret = IF GuardFailed(err)
                                    THEN Wrapf(err, "error checking for bearer token expiration")
                                    ELSE NilErr]]
    /\ UNCHANGED <<clock, made>>

\* makeAPIrequest sets the headers of the request.
Decorate(p) ==
    /\ call[p].pc = "decorate"
    /\ call' = [call EXCEPT ![p] =
                  [@ EXCEPT !.pc = "do",
                            !.tokenReq = NoRequest,
                            !.tokenRes = NoResponse,
                            !.r.Header = SetHeaders(@, j.Token.Token)]]
    /\ UNCHANGED <<j, clock, made>>

\* j.api.Do(r): the resource request goes out.
Do(p) ==
    /\ call[p].pc = "do"
    /\ call' = [call EXCEPT ![p] =
                  [@ EXCEPT !.pc = "await_response", !.sentRes = @ + 1]]
    /\ UNCHANGED <<j, clock, made>>

\* The rest of makeAPIrequest, on the answer of the resource endpoint.
Response(p) ==
    /\ call[p].pc = "await_response"
    /\ \E resp \in ResourceResponses :
         LET out == MakeAPIResult(resp, call[p].v, call[p].r)
         IN  call' = [call EXCEPT ![p] =
                        [@ EXCEPT !.pc = "done", !.res = resp,
                                  !.v = out.v, !.ret = out.err]]
    /\ UNCHANGED <<j, clock, made>>

\* A call that starts over when it has failed, instead of returning.
Return_Retries(p) ==
    /\ call[p].pc = "done"
    /\ call' = [call EXCEPT ![p] =
                  IF call[p].ret.nil THEN Idle
                  ELSE [@ EXCEPT !.pc = "check", !.err = NilErr, !.ret = NilErr,
                                 !.renewed = FALSE, !.res = NoResponse,
                                 !.tokenReq = NoRequest, !.tokenRes = NoResponse]]
    /\ UNCHANGED <<j, clock, made>>

\* The call returns to its caller.
Return(p) ==
    /\ call[p].pc = "done"
    /\ call' = [call EXCEPT ![p] = Idle]
    /\ UNCHANGED <<j, clock, made>>

\* Time passes.
Tick ==
    /\ clock < MaxNow
    /\ clock' = clock + 1
    /\ UNCHANGED <<j, call, made>>

Next ==
    \/ MockAPIRequest
    \/ Computers
    \/ \E p \in Callers :
         \/ CheckTokenExpiration(p)
         \/ RequestToken(p)
         \/ TokenResponse(p)
         \/ Decorate(p)
         \/ Do(p)
         \/ Response(p)
         \/ Return(p)
    \/ Tick

Spec == Init /\ [][Next]_vars

----------------------------------------------------------------------------
(* Construction *)

\* What a caller may hand to NewClient.
NewClientDomains == Domains \cup {""}

NewClientUsernames == {"", Username, "admin"}

NewClientPasswords == {"", Password, "pw"}

\* No client: what the caller holds before NewClient returns and after it
\* returned nil.
NoClient == NewClient("", "", "").client

\* Before the call of NewClient: the arguments are chosen.
InitNew ==
    /\ \E d \in NewClientDomains, u \in NewClientUsernames,
          pw \in NewClientPasswords, c \in {NilHTTPClient, CallerHTTPClient} :
         made = [called |-> FALSE,
                 args |-> [domain |-> d, username |-> u, password |-> pw,
                           client |-> c],
                 ok |-> FALSE, err |-> NilErr, api |-> NilHTTPClient]
    /\ j = NoClient
    /\ clock = 0
    /\ call = [p \in Callers |-> Idle]

\* NewClient runs: it validates and builds the client, and sends nothing.
Construct ==
    /\ ~made.called
    /\ LET a == made.args
       IN  /\ made' = Constructed(a.domain, a.username, a.password, a.client)
           /\ j' = NewClient(a.domain, a.username, a.password).client
    /\ UNCHANGED <<clock, call>>

NextNew == Construct

SpecNew == InitNew /\ [][NextNew]_vars

----------------------------------------------------------------------------
(* Calls on one client from several goroutines *)

\* Answers of the authentication endpoint: a token that lasts, a token
\* about to expire, and a refusal.
ConcurrentAuthResponses ==
    {Reply(200, "application/json",
           JSONBody(<<Str("token", "tokA"), Str("expires", "2026-01-01T00:09:00Z")>>), TRUE),
     Reply(200, "application/json",
           JSONBody(<<Str("token", "tokB"), Str("expires", "2026-01-01T00:01:00Z")>>), TRUE),
     Reply(401, "text/plain", Unauthorized, TRUE)}

\* Answers of the resource endpoint: the resource, and a failure.
ConcurrentResourceResponses ==
    {Reply(200, "application/json",
           JSONBody(<<Str("status", "OK"), Str("name", "mac1")>>), TRUE),
     Reply(500, "text/plain; charset=utf-8", BadCall, TRUE)}

\* MockAPIRequest from a goroutine of its own: no other call is waited for.
ConcurrentMockAPIRequest ==
    /\ call[1].pc = "idle"
    /\ \E u \in TestURLs :
         LET req == NewRequest("GET", u)
             h == [req.Header EXCEPT
                     !.Accept = "application/json,  application/xml;q=0.9",
                     !.Authorization = BasicAuth(j.Username, j.Password)]
         IN  call' = [call EXCEPT ![1] =
                        [Idle EXCEPT !.pc = "check",
                                     !.r = [req EXCEPT !.Header = h]]]
    /\ UNCHANGED <<j, clock, made>>

\* Computers from a goroutine of its own.
ConcurrentComputers ==
    /\ call[2].pc = "idle"
    /\ URLParseError(j.Endpoint \o "/computers").nil
    /\ call' = [call EXCEPT ![2] =
                  [Idle EXCEPT !.pc = "check",
                               !.r = NewRequest("GET", j.Endpoint \o "/computers")]]
    /\ UNCHANGED <<j, clock, made>>

\* The call of caller p once requestToken has returned err.
AfterRequestToken(p, resp, err) ==
    [call[p] EXCEPT !.tokenRes = resp,
                    !.err = err,
                    !.renewed = err.nil,
                    !.pc = IF GuardFailed(err) THEN "done" ELSE "decorate",
                    !.ret = IF GuardFailed(err)
                            THEN Wrapf(err, "error checking for bearer token expiration")
                            ELSE NilErr]

\* The answer of the authentication endpoint arrives.  The decoder writes
\* the fields of the shared token store one after the other, in the order of
\* the members, without a lock: when both fields change, the other callers
\* can run between the two writes.
ConcurrentTokenResponse(p) ==
    /\ call[p].pc = "await_token"
    /\ \E resp \in ConcurrentAuthResponses :
         LET out == RequestTokenResult(resp, j.Token, call[p].tokenReq)
             err == Wrapf(out.err, "error requesting new bearer token")
         IN  IF out.Token.Token # j.Token.Token /\ out.Token.Expires # j.Token.Expires
             THEN /\ j' = [j EXCEPT !.Token.Token = out.Token.Token]
                  /\ call' = [call EXCEPT ![p] =
                                [@ EXCEPT !.pc = "storing", !.tokenRes = resp]]
             ELSE /\ j' = [j EXCEPT !.Token = out.Token]
                  /\ call' = [call EXCEPT ![p] = AfterRequestToken(p, resp, err)]
    /\ UNCHANGED <<clock, made>>

\* The decoder writes the expiration, and requestToken returns.
StoreExpires(p) ==
    /\ call[p].pc = "storing"
    /\ LET out == RequestTokenResult(call[p].tokenRes, j.Token, call[p].tokenReq)
           err == Wrapf(out.err, "error requesting new bearer token")
       IN  /\ j' = [j EXCEPT !.Token.Expires = out.Token.Expires]
           /\ call' = [call EXCEPT ![p] = AfterRequestToken(p, call[p].tokenRes, err)]
    /\ UNCHANGED <<clock, made>>

\* The answer of the resource endpoint arrives.
ConcurrentResponse(p) ==
    /\ call[p].pc = "await_response"
    /\ \E resp \in ConcurrentResourceResponses :
         LET out == MakeAPIResult(resp, call[p].v, call[p].r)
         IN  call' = [call EXCEPT ![p] =
                        [@ EXCEPT !.pc = "done", !.res = resp,
                                  !.v = out.v, !.ret = out.err]]
    /\ UNCHANGED <<j, clock, made>>

NextConcurrent ==
    \/ ConcurrentMockAPIRequest
    \/ ConcurrentComputers
    \/ \E p \in Callers :
         \/ CheckTokenExpiration(p)
         \/ RequestToken(p)
         \/ ConcurrentTokenResponse(p)
         \/ StoreExpires(p)
         \/ Decorate(p)
         \/ Do(p)
         \/ ConcurrentResponse(p)
         \/ Return(p)
    \/ Tick

SpecConcurrent == Init /\ [][NextConcurrent]_vars

----------------------------------------------------------------------------
(* Properties *)

XMLTypes == {"text/xml", "application/xml"}

JSONTypes == {"text/json", "application/json", "text/plain"}

\* The response of a finished call is a 200/201 whose base media type has no
\* decoder.
UnsupportedType(c) ==
    /\ c.pc = "done" /\ c.res.trip = "ok" /\ c.res.code \in {200, 201}
    /\ SplitFirst(c.res.ctype, ";") \notin XMLTypes \cup JSONTypes

\* C1: a 200/201 response whose base media type is none of the five known
\* ones (an absent Content-Type included) makes makeAPIrequest return a
\* non-nil error that names the type.
C1_UnsupportedTypeFails ==
    \A p \in Callers :
        UnsupportedType(call[p]) =>
            /\ ~call[p].ret.nil
            /\ Contains(call[p].ret.msg, SplitFirst(call[p].res.ctype, ";"))

\* The step in which caller p hands its request to the transport.
SendsResource(p) == call[p].pc = "do" /\ call'[p].pc = "await_response"

\* C2: every resource request goes out with Authorization equal to "Bearer "
\* followed by the token the store holds at that moment, whatever the request
\* carried before.
C2_BearerOfStoredToken ==
    [][\A p \in Callers :
          SendsResource(p) =>
              /\ call'[p].r.Header.Authorization = "Bearer " \o j.Token.Token
              /\ call'[p].r.Header.Authorization # BasicAuth(j.Username, j.Password)]_vars

\* A request of MockAPIRequest, which had Basic credentials set, is on the
\* wire with the token the guard has just stored.
C2_Witness ==
    /\ call[1].pc = "await_response"
    /\ call[1].renewed
    /\ j.Token.Token = "tokB"
    /\ call[1].r.Header.Authorization = "Bearer tokB"

\* The stored expiration parses and lies more than the margin ahead.
StillValid == 
    /\ TimeParse(j.Token.Expires).err.nil
    /\ TimeParse(j.Token.Expires).t - Now > Margin

\* The step in which caller p runs the guard's check.
Checks(p) == call[p].pc = "check" /\ call'[p].pc # "check"

\* C3: with a parseable expiration more than 5 minutes ahead the guard
\* returns nil, sends nothing to the authentication endpoint and leaves the
\* token store as it was.
C3_ValidTokenNoRequest ==
    [][\A p \in Callers :
          Checks(p) /\ StillValid =>
              /\ call'[p].pc = "decorate"
              /\ call'[p].err.nil
              /\ call'[p].sentAuth = 0
              /\ call'[p].tokenRes = NoResponse
              /\ j'.Token = j.Token]_vars

\* The guard has passed a token that has six minutes or more left without
\* a token request.
C3_Witness ==
    \E p \in Callers :
        /\ call[p].pc = "decorate"
        /\ call[p].sentAuth = 0
        /\ j.Token.Expires = "2026-01-01T01:07:00+01:00"
        /\ j.Token.Token = "tokA"
        /\ clock <= 1

\* The stored expiration is empty, or parses and has the margin or less left.
Expired ==
    \/ j.Token.Expires = ""
    \/ /\ TimeParse(j.Token.Expires).err.nil
       /\ TimeParse(j.Token.Expires).t - Now <= Margin

\* The step in which requestToken of caller p builds and sends its request.
Requests(p) == call[p].pc = "request" /\ call'[p].pc # "request"

\* The step in which requestToken of caller p gets its answer and returns.
Answered(p) == call[p].pc = "await_token" /\ call'[p].pc # "await_token"

\* Every text member of a token body that names a field of the token.
Returned(b) ==
    {m \in {b.members[i] : i \in DOMAIN b.members} :
        m.type = "string" /\ m.name \in DOMAIN TokenNames}

\* The store holds what the answer of a successful acquisition carried.
HoldsReturned(p) ==
    call'[p].err.nil =>
        \A m \in Returned(call'[p].tokenRes.body) :
            j'.Token[TokenNames[m.name]] = m.val

\* C4 as stated: with an empty expiration, or one with 5 minutes or less left,
\* one call of the guard sends exactly one POST to the authentication
\* endpoint, and after a successful acquisition the store holds the returned
\* token.
C4_ExpiredTokenOnePost ==
    [][\A p \in Callers :
          /\ Checks(p) /\ Expired => call'[p].pc = "request"
          /\ Requests(p) =>
                call'[p].pc = "await_token" /\ call'[p].sentAuth = 1
          /\ Answered(p) => call'[p].sentAuth = 1 /\ HoldsReturned(p)
          /\ call'[p].sentAuth <= 1]_vars

\* C4 amended: as C4, when a request URL can be built from the domain;
\* otherwise the guard fails without sending anything.
C4_ExpiredTokenOnePostIfBuilt ==
    [][\A p \in Callers :
          /\ Checks(p) /\ Expired => call'[p].pc = "request"
          /\ Requests(p) =>
                IF URLParseError(j.Domain \o "/api/v1/auth/token").nil
                THEN /\ call'[p].pc = "await_token"
                     /\ call'[p].sentAuth = 1
                     /\ call'[p].tokenReq.Method = "POST"
                     /\ call'[p].tokenReq.URL = j.Domain \o "/api/v1/auth/token"
                ELSE /\ call'[p].pc = "done"
                     /\ call'[p].sentAuth = 0
                     /\ ~call'[p].err.nil
          /\ Answered(p) => call'[p].sentAuth = 1 /\ HoldsReturned(p)
          /\ call'[p].sentAuth <= 1]_vars

\* A token with exactly five minutes left was replaced by the answer to the
\* one request the guard sent.
C4_Witness ==
    \E p \in Callers :
        /\ call[p].pc = "decorate" /\ call[p].renewed
        /\ call[p].sentAuth = 1
        /\ call[p].tokenRes.code = 201
        /\ clock = MaxNow
        /\ call[p].tokenRes.body =
             JSONBody(<<Str("token", "tokB"), Str("expires", "2026-01-01T00:09:00Z")>>)
        /\ j.Token = [Token |-> "tokB", Expires |-> "2026-01-01T00:09:00Z"]

\* The answer is a 200/201 whose body is {"token": T, "expires": E} with E
\* an RFC 3339 timestamp.
FullToken(resp, T, E) ==
    /\ resp.trip = "ok" /\ resp.code \in {200, 201} /\ resp.readable
    /\ resp.body = JSONBody(<<Str("token", T), Str("expires", E)>>)
    /\ TimeParse(E).err.nil

\* C5: whatever the store held, a 200/201 answer with body {"token": T,
\* "expires": E} makes requestToken return nil with T and E in the store;
\* an answer with any other status makes it fail.
C5_TokenStoredOn200Or201 ==
    [][\A p \in Callers :
          Answered(p) =>
              /\ \A T \in TokenValues, E \in ExpiresValues :
                    FullToken(call'[p].tokenRes, T, E) =>
                        /\ call'[p].err.nil
                        /\ j'.Token = [Token |-> T, Expires |-> E]
              /\ (call'[p].tokenRes.trip = "ok"
                  /\ call'[p].tokenRes.code \notin {200, 201}) =>
                        /\ ~call'[p].err.nil
                        /\ j'.Token = j.Token]_vars

\* A 201 answer has put its token and expiration in the store.
C5_Witness ==
    \E p \in Callers :
        /\ call[p].pc = "decorate"
        /\ FullToken(call[p].tokenRes, "tokA", "2026-01-01T00:01:00Z")
        /\ call[p].tokenRes.code = 201
        /\ j.Token = [Token |-> "tokA", Expires |-> "2026-01-01T00:01:00Z"]

\* C6: when the guard returns an error, makeAPIrequest returns a non-nil
\* error and sends no resource request in that call.
C6_GuardErrorStopsCall ==
    \A p \in Callers :
        ~call[p].err.nil =>
            /\ call[p].pc = "done"
            /\ ~call[p].ret.nil
            /\ Contains(call[p].ret.msg, call[p].err.msg)
            /\ call[p].sentRes = 0
            /\ call[p].res = NoResponse

\* A call has ended on a token answer that did not decode.
C6_Witness ==
    \E p \in Callers :
        /\ call[p].pc = "done"
        /\ call[p].tokenRes.code = 200
        /\ Contains(call[p].ret.msg, "error occured decoding JSON token response")
        /\ call[p].sentRes = 0

\* C7: a non-empty stored expiration that is no RFC 3339 timestamp makes the
\* guard return an error without requesting a token and without touching the
\* store.
C7_ParseFailureIsFatal ==
    [][\A p \in Callers :
          (Checks(p) /\ j.Token.Expires # ""
           /\ ~TimeParse(j.Token.Expires).err.nil) =>
              /\ ~call'[p].err.nil
              /\ call'[p].pc = "done"
              /\ call'[p].sentAuth = 0
              /\ call'[p].tokenRes = NoResponse
              /\ j'.Token = j.Token]_vars

\* A call has failed in the guard on an expiration given in Unix seconds.
C7_Witness ==
    \E p \in Callers :
        /\ call[p].pc = "done"
        /\ j.Token.Expires = "1767225600"
        /\ call[p].sentAuth = 0
        /\ Contains(call[p].err.msg, "error parsing the bearer token expiration date: 1767225600")

\* The members a decoder has stored by the time it reports its error: a
\* 200/201 answer of a decodable type whose JSON body has a member of the
\* wrong type, or whose markup body is cut off.
FailsPartWay(resp) ==
    /\ resp.trip = "ok" /\ resp.code \in {200, 201}
    /\ \/ /\ SplitFirst(resp.ctype, ";") \in JSONTypes
          /\ resp.body.kind = "json" /\ resp.body.complete
          /\ Mismatches(resp.body.members, ContainerJSONNames) # <<>>
       \/ /\ SplitFirst(resp.ctype, ";") \in XMLTypes
          /\ resp.body.kind = "xml" /\ ~resp.body.complete

\* C8 as stated: on every failing path the container holds after the call
\* the value it held before.
C8_ContainerChangedOnlyOnSuccess ==
    \A p \in Callers :
        (call[p].pc = "done" /\ ~call[p].ret.nil) => call[p].v = call[p].v0

\* C8 amended: the container is as before the call on a guard error, a
\* transport error, a status outside {200, 201}, an unsupported media type
\* and a body the decoder rejects before it stores anything; only a decode
\* error part-way through the body leaves the members decoded before it.
C8_ContainerKeptUnlessDecoderRan ==
    \A p \in Callers :
        /\ call[p].pc # "done" => call[p].v = call[p].v0
        /\ (call[p].pc = "done" /\ ~call[p].ret.nil /\ ~FailsPartWay(call[p].res))
              => call[p].v = call[p].v0
        /\ UnsupportedType(call[p]) => call[p].v = call[p].v0

\* A used container came back untouched from a call that failed on a JSON
\* body cut off before its end.
C8_Witness ==
    /\ call[1].pc = "done"
    /\ ~call[1].ret.nil
    /\ call[1].res.code = 200
    /\ call[1].res.ctype = "text/plain"
    /\ call[1].res.body = JSONCut(<<Str("status", "OK")>>)
    /\ call[1].v0 = [Status |-> "stale", Name |-> "old"]
    /\ call[1].v = call[1].v0

\* The prefix makeAPIrequest puts before an error of the guard's token request.
GuardPrefix ==
    "error checking for bearer token expiration: error requesting new bearer token: "

\* C9 as stated: a resource response is a success exactly when its status is
\* 200 or 201; for any other status nothing is decoded and the error holds
\* the text of the body.
C9_OtherStatusFailsWithBody ==
    \A p \in Callers :
        (call[p].pc = "done" /\ call[p].res.trip = "ok") =>
            IF call[p].res.code \in {200, 201}
            THEN ~Contains(call[p].ret.msg, "request error: ")
            ELSE /\ ~call[p].ret.nil
                 /\ call[p].v = call[p].v0
                 /\ Contains(call[p].ret.msg, BodyText(call[p].res.body))

\* C9 amended: as C9 for a body that can be read; when reading the body
\* fails the error names the status and the read failure instead.
C9_OtherStatusFailsWithReadableBody ==
    \A p \in Callers :
        (call[p].pc = "done" /\ call[p].res.trip = "ok") =>
            IF call[p].res.code \in {200, 201}
            THEN ~Contains(call[p].ret.msg, "request error: ")
            ELSE /\ ~call[p].ret.nil
                 /\ call[p].v = call[p].v0
                 /\ IF call[p].res.readable
                    THEN call[p].ret.msg
                           = "request error: " \o BodyText(call[p].res.body)
                    ELSE /\ Contains(call[p].ret.msg, StatusText(call[p].res.code))
                         /\ Contains(call[p].ret.msg,
                                "unable to retrieve plain text response")

\* A 500 with a JSON body has failed, with the body's text in the error and
\* the used container as it was.
C9_Witness ==
    /\ call[1].pc = "done"
    /\ call[1].res.code = 500
    /\ call[1].res.readable
    /\ call[1].res.body = JSONBody(<<Str("status", "OK"), Str("name", "mac1")>>)
    /\ call[1].ret.msg = "request error: {\"status\":\"OK\",\"name\":\"mac1\"}"
    /\ call[1].v = [Status |-> "stale", Name |-> "old"]

\* The answers with a status outside {200, 201} and a readable body that
\* caller p has got, each with the error of the function that got it.
Rejected(p) ==
    {<<call[p].tokenRes, call[p].err>>, <<call[p].res, call[p].ret>>}

\* C10 as stated: for a status outside {200, 201} and a readable body, from
\* either endpoint, the error carries the response status and the body text.
C10_ErrorCarriesStatusAndBody ==
    \A p \in Callers : \A a \in Rejected(p) :
        (a[1].trip = "ok" /\ a[1].code \notin {200, 201} /\ a[1].readable) =>
            /\ Contains(a[2].msg, StatusText(a[1].code))
            /\ Contains(a[2].msg, BodyText(a[1].body))

\* C10 amended: the error carries the body text and nothing else of the
\* response: it is "request error: " and the body, behind the prefixes of
\* the callers.
C10_ErrorCarriesBodyOnly ==
    \A p \in Callers :
        /\ (call[p].tokenRes.trip = "ok" /\ call[p].tokenRes.code \notin {200, 201}
            /\ call[p].tokenRes.readable) =>
               call[p].ret.msg = GuardPrefix \o "request error: "
                                   \o BodyText(call[p].tokenRes.body)
        /\ (call[p].res.trip = "ok" /\ call[p].res.code \notin {200, 201}
            /\ call[p].res.readable) =>
               call[p].ret.msg = "request error: " \o BodyText(call[p].res.body)

\* A 401 of the authentication endpoint has ended a call with the body, and
\* no status, in the error.
C10_Witness ==
    \E p \in Callers :
        /\ call[p].pc = "done"
        /\ call[p].tokenRes.code = 401
        /\ call[p].tokenRes.readable
        /\ call[p].tokenRes.body = Unauthorized
        /\ call[p].ret.msg = GuardPrefix \o "request error: Unauthorized"
        /\ ~Contains(call[p].ret.msg, "401")

----------------------------------------------------------------------------
(* C11: the decoder is chosen by the media type *)

\* The Content-Type values of the model without their parameters.
MediaType(ct) ==
    CASE ct \in {"application/json", "application/json;charset=UTF-8"} -> "application/json"
      [] ct = "text/json" -> "text/json"
      [] ct = "text/plain" -> "text/plain"
      [] ct = "text/xml;charset=UTF-8" -> "text/xml"
      [] ct = "application/xml" -> "application/xml"
      [] ct = "text/html;charset=UTF-8" -> "text/html"
      [] OTHER -> ""

\* A call that has ended on a 200 or 201 answer of the resource endpoint.
Decoded(p) ==
    /\ call[p].pc = "done"
    /\ call[p].res.trip = "ok"
    /\ call[p].res.code \in {200, 201}

\* C11: the media type, parameters stripped, chooses the decoder.  With
\* text/xml or application/xml the body is read as markup and never as JSON:
\* a markup body is stored by element name and a JSON body is an error that
\* stores nothing.  With text/json, application/json or text/plain the body
\* is read as JSON and never as markup: a JSON body is stored by json tag
\* and a markup body is an error that stores nothing.  A text/plain answer
\* with a JSON body decodes without error.
C11_TypeSelectsDecoder ==
    \A p \in Callers : Decoded(p) =>
        LET c == call[p]
            b == c.res.body
            t == MediaType(c.res.ctype)
        IN  /\ t \in XMLTypes =>
                 /\ c.ret.nil <=> (b.kind = "xml" /\ b.complete)
                 /\ b.kind = "xml" =>
                      c.v = StoreMembers(c.v0, b.members, ContainerXMLNames)
                 /\ b.kind # "xml" => c.v = c.v0
                 /\ ~c.ret.nil =>
                      Contains(c.ret.msg,
                               "error occured decoding response body of type " \o t)
            /\ t \in JSONTypes =>
                 /\ c.ret.nil <=>
                      /\ b.kind = "json"
                      /\ b.complete
                      /\ \A i \in 1..Len(b.members) : b.members[i].type = "string"
                 /\ (b.kind = "json" /\ b.complete) =>
                      c.v = StoreMembers(c.v0, b.members, ContainerJSONNames)
                 /\ (b.kind # "json" \/ ~b.complete) => c.v = c.v0
                 /\ ~c.ret.nil =>
                      Contains(c.ret.msg,
                               "error occured error decoding response body of type " \o t)

\* Answers with parameters behind the media type have been decoded, markup
\* as markup and JSON as JSON, and a text/plain answer with a JSON body has
\* filled the container.
C11_Witness ==
    /\ call[1].pc = "done"
    /\ call[1].res.code = 200
    /\ call[1].res.ctype = "text/plain"
    /\ call[1].res.body = JSONBody(<<Str("status", "OK"), Str("name", "mac1")>>)
    /\ call[1].ret.nil
    /\ call[1].v0 = [Status |-> "stale", Name |-> "old"]
    /\ call[1].v = [Status |-> "OK", Name |-> "mac1"]

----------------------------------------------------------------------------
(* C12: NewClient *)

ConfigurationError == "you must provide a valid Jamf domain, username, and password"

\* C12: NewClient with an empty domain, username or password returns a
\* configuration error and no client, and sends nothing; with all three
\* present it returns a client whose token store is empty and whose
\* endpoint is the domain followed by /JSSResource, and no error.
C12_NewClientValidates ==
    made.called =>
        LET a == made.args
        IN  /\ \A p \in Callers : call[p] = Idle
            /\ IF a.domain = "" \/ a.username = "" \/ a.password = ""
               THEN /\ ~made.ok
                    /\ j = NoClient
                    /\ ~made.err.nil
                    /\ made.err.msg = ConfigurationError
               ELSE /\ made.ok
                    /\ made.err.nil
                    /\ j.Token = [Token |-> "", Expires |-> ""]
                    /\ j.Endpoint = a.domain \o "/JSSResource"
                    /\ j.Domain = a.domain
                    /\ j.Username = a.username
                    /\ j.Password = a.password

\* NewClient has refused arguments whose password alone is empty.
C12_Witness ==
    /\ made.called
    /\ made.args.domain = "https://jamf.example.com"
    /\ made.args.username = Username
    /\ made.args.password = ""
    /\ ~made.ok
    /\ made.err.msg = ConfigurationError

----------------------------------------------------------------------------
(* C13: no lock around the guard *)

\* A token request of caller p is on its way.
TokenRequestInFlight(p) ==
    /\ call[p].pc = "await_token"
    /\ call[p].sentAuth = 1
    /\ call[p].tokenReq.Method = "POST"
    /\ call[p].tokenReq.URL = j.Domain \o "/api/v1/auth/token"

\* C13: nothing serializes the guard.  Whatever the other callers are doing,
\* a caller at the check can run it, it decides to renew whenever the token
\* it reads is expired, and a caller that has decided to renew can send its
\* token request; a caller waiting for a token has sent one POST to the
\* authentication endpoint.
C13_GuardNotSerialized ==
    \A p \in Callers :
        /\ call[p].pc = "check" => ENABLED CheckTokenExpiration(p)
        /\ (call[p].pc = "check" /\ Expired) =>
              ENABLED (CheckTokenExpiration(p) /\ call'[p].pc = "request")
        /\ call[p].pc = "request" => ENABLED RequestToken(p)
        /\ call[p].pc = "await_token" => TokenRequestInFlight(p)

\* Two callers found the same stored token expired, and the token requests
\* of both are in flight at once.
C13_Witness ==
    /\ j.Token.Token = "tokB"
    /\ j.Token.Expires = "2026-01-01T00:01:00Z"
    /\ TokenRequestInFlight(1)
    /\ TokenRequestInFlight(2)

----------------------------------------------------------------------------
(* C14: nothing is retried *)

\* The call of caller p has met a failure.
Failed(p) == ~call[p].err.nil \/ ~call[p].ret.nil

\* C14: one call sends at most one authentication request and at most one
\* resource request, and once it has failed it sends nothing more.
C14_NothingRetried ==
    [][\A p \in Callers :
          /\ call'[p].sentAuth <= 1
          /\ call'[p].sentRes <= 1
          /\ Failed(p) =>
               /\ call'[p].sentAuth <= call[p].sentAuth
               /\ call'[p].sentRes <= call[p].sentRes
               /\ call'[p].pc \in {"done", "idle"}]_vars

\* A call has sent one token request and one resource request, the second
\* was refused, and the call has ended with the error.
C14_Witness ==
    \E p \in Callers :
        /\ call[p].pc = "done"
        /\ call[p].sentAuth = 1
        /\ call[p].sentRes = 1
        /\ call[p].res.code = 500
        /\ ~call[p].ret.nil

----------------------------------------------------------------------------
(* C15: the first call on a new client *)

\* The token store as NewClient leaves it.
FreshStore == j.Token = [Token |-> "", Expires |-> ""]

\* Body b is one the decoder for media type t reads to its end.
Populated(b, t) ==
    IF t \in XMLTypes
    THEN b.kind = "xml" /\ b.complete
    ELSE b.kind = "json" /\ b.complete

\* C15: on a client whose token store is empty, a call sends its token
\* request before its resource request, sends the resource request only
\* when the token of the answer is stored, and, when both answers are
\* successes and the call returns without error, leaves the container
\* filled from the body of the resource answer.
C15_FirstCallAcquiresThenFetches ==
    [][\A p \in Callers :
          /\ (Checks(p) /\ FreshStore) =>
                call'[p].pc = "request" /\ call'[p].sentRes = 0
          /\ call[p].pc \in {"request", "await_token"} => call'[p].sentRes = 0
          /\ (SendsResource(p) /\ call[p].sentAuth = 1) =>
                /\ call[p].renewed
                /\ call'[p].r.Header.Authorization = "Bearer " \o j.Token.Token
          /\ (/\ call[p].pc = "await_response"
              /\ call[p].renewed
              /\ call'[p].pc = "done"
              /\ call'[p].res.trip = "ok"
              /\ call'[p].res.code \in {200, 201}
              /\ call'[p].ret.nil) =>
                LET b == call'[p].res.body
                    t == MediaType(call'[p].res.ctype)
                IN  /\ Populated(b, t)
                    /\ call'[p].v =
                         StoreMembers(call'[p].v0, b.members,
                                      IF t \in XMLTypes THEN ContainerXMLNames
                                      ELSE ContainerJSONNames)]_vars

----------------------------------------------------------------------------
(* C16, C17: what an answer of the authentication endpoint does to the store *)

\* The members of body b named name.
Carried(b, name) == SelectSeq(b.members, LAMBDA x : x.name = name)

\* The store after the decoder has read body b over store old: a field the
\* body carries a text for holds the last such text, every other field is as
\* it was.
FieldsFrom(b, old) ==
    [f \in {"Token", "Expires"} |->
        LET name == IF f = "Token" THEN "token" ELSE "expires"
            texts == SelectSeq(Carried(b, name), LAMBDA x : x.type = "string")
        IN  IF texts = <<>> THEN old[f] ELSE texts[Len(texts)].val]

\* C16: when requestToken returns no error, token and expiration of the
\* store are those of the answer and nothing of the previous token is left:
\* a field the answer does not carry is empty.
C16_RenewalOverwritesStore ==
    [][\A p \in Callers :
          (Answered(p) /\ call'[p].err.nil) =>
              j'.Token = FieldsFrom(call'[p].tokenRes.body,
                                    [Token |-> "", Expires |-> ""])]_vars

\* C16 amended: when requestToken returns no error, every field the answer
\* carries holds the value of the answer, and a field the answer omits keeps
\* the value it had before.
C16_RenewalOverwritesCarriedFields ==
    [][\A p \in Callers :
          (Answered(p) /\ call'[p].err.nil) =>
              /\ call'[p].tokenRes.code \in {200, 201}
              /\ j'.Token = FieldsFrom(call'[p].tokenRes.body, j.Token)]_vars

\* A renewal whose answer carried an expiration and no token has succeeded,
\* and the token of before is still in the store.
C16_Witness ==
    \E p \in Callers :
        /\ call[p].pc = "decorate"
        /\ call[p].renewed
        /\ call[p].tokenRes.body = JSONBody(<<Str("expires", "2026-01-01T00:09:00Z")>>)
        /\ j.Token = [Token |-> "tokB", Expires |-> "2026-01-01T00:09:00Z"]

\* C17: whenever requestToken returns an error, the store is as it was
\* before the call.
C17_FailedAcquisitionKeepsStore ==
    [][\A p \in Callers :
          (Answered(p) /\ ~call'[p].err.nil) => j'.Token = j.Token]_vars

\* The answer is a 200/201 whose body is a whole JSON object: the decoder
\* gets to storing its members.
WholeObject(resp) ==
    /\ resp.trip = "ok" /\ resp.code \in {200, 201} /\ resp.readable
    /\ resp.body.kind = "json"
    /\ resp.body.complete

\* C17 amended: when requestToken returns an error, the store is as it was
\* before the call, unless the answer was a 200/201 with a whole JSON object
\* in which a member has the wrong type: then the text members of the
\* answer are in the store just the same.
C17_FailedAcquisitionKeepsStoreUnlessTypeError ==
    [][\A p \in Callers :
          (Answered(p) /\ ~call'[p].err.nil) =>
              IF WholeObject(call'[p].tokenRes)
              THEN /\ j'.Token = FieldsFrom(call'[p].tokenRes.body, j.Token)
                   /\ Contains(call'[p].err.msg, "json: cannot unmarshal number")
              ELSE j'.Token = j.Token]_vars

\* An acquisition has failed on an expiration sent as a number, and the
\* token of that answer is in the store.
C17_Witness ==
    \E p \in Callers :
        /\ call[p].pc = "done"
        /\ ~call[p].err.nil
        /\ call[p].tokenRes.body =
             JSONBody(<<Str("token", "tokB"), Num("expires", "1767225600")>>)
        /\ j.Token.Token = "tokB"
        /\ call[p].sentRes = 0

----------------------------------------------------------------------------
(* C18, C19: the expiration of a token once it is stored *)

\* The stored expiration is not empty and no RFC 3339 timestamp.
BadExpiration ==
    j.Token.Expires # "" /\ ~TimeParse(j.Token.Expires).err.nil

\* C18: with an unparseable expiration in the store, no step changes the
\* store, and every call that comes to the guard ends there with an error,
\* having sent neither a token request nor a resource request.
C18_BadExpirationAbsorbing ==
    [][BadExpiration =>
          /\ j' = j
          /\ \A p \in Callers :
                /\ Checks(p) =>
                     /\ call'[p].pc = "done"
                     /\ ~call'[p].ret.nil
                     /\ call'[p].sentAuth = 0
                     /\ call'[p].sentRes = 0
                /\ call'[p].sentAuth <= call[p].sentAuth
                /\ call[p].sentAuth = 0 => call'[p].sentRes = 0]_vars

\* A call made after a Unix time got into the store as expiration has ended
\* in the guard without sending anything.
C18_Witness ==
    /\ BadExpiration
    /\ j.Token = [Token |-> "tokB", Expires |-> "1767225600"]
    /\ call[2].pc = "done"
    /\ Contains(call[2].ret.msg, "error parsing the bearer token expiration date: 1767225600")
    /\ call[2].sentAuth = 0
    /\ call[2].sentRes = 0
    /\ clock = 1

\* C19: when the acquisition of a call succeeds, the guard returns nil
\* whatever the expiration of the answer, the call goes on to the resource
\* request without looking at the expiration again, and the request carries
\* the token now in the store.
C19_AcquiredTokenNotRechecked ==
    [][\A p \in Callers :
          /\ (Answered(p) /\ call'[p].err.nil) =>
                /\ call'[p].pc = "decorate"
                /\ call'[p].ret.nil
                /\ call'[p].renewed
          /\ (call[p].renewed /\ call[p].pc = "decorate" /\ call'[p] # call[p]) =>
                /\ call'[p].pc = "do"
                /\ call'[p].r.Header.Authorization = "Bearer " \o j.Token.Token
          /\ (call[p].renewed /\ SendsResource(p)) =>
                /\ call[p].sentAuth = 1
                /\ call'[p].sentRes = 1
                /\ call'[p].r.Header.Authorization = "Bearer " \o j.Token.Token]_vars

\* The resource request of a call is out with the token the call acquired,
\* whose expiration is no RFC 3339 timestamp.
C19_Witness ==
    \E p \in Callers :
        /\ call[p].pc = "await_response"
        /\ call[p].renewed
        /\ j.Token = [Token |-> "tokA", Expires |-> "1767225600"]
        /\ call[p].r.Header.Authorization = "Bearer tokA"

====
